---- MODULE Spec2Model ----
(***************************************************************************)
(* A model of package sleepy (core.go): an API owns a lazily created       *)
(* http.ServeMux; AddResource registers a request handler closure for a    *)
(* resource under a path; Start refuses to serve when the mux was never    *)
(* created and otherwise listens; the handler closure parses the form,     *)
(* resolves the resource's method for the HTTP verb, invokes it and writes *)
(* the JSON encoding of its result.                                        *)
(*                                                                         *)
(* The standard library pieces the code calls are modelled by their        *)
(* documented contracts: ServeMux.HandleFunc panics on an empty pattern    *)
(* and on a pattern that is already registered; ResponseWriter.WriteHeader *)
(* takes effect once per response; ResponseWriter.Write sends a 200 header *)
(* first when none was sent; json.Marshal returns no bytes with its error. *)
(*                                                                         *)
(* AddResource and Start are calls of the program's own goroutine and are  *)
(* one step each; a panic of HandleFunc is taken as recovered by the       *)
(* caller, so that the state it leaves behind can be looked at. A handler  *)
(* closure runs on the transport's goroutine of its request, in four steps *)
(* (parse, resolve, invoke, respond) that interleave with everything else. *)
(***************************************************************************)
EXTENDS Integers, Sequences, FiniteSets, TLC

\* ---------------------------------------------------------------- bounds
MaxInflight == 2    \* requests being handled (or awaiting discard) at once

\* ------------------------------------------------------------- constants
GET == "GET"
POST == "POST"
PUT == "PUT"
DELETE == "DELETE"
HEAD == "HEAD"      \* a verb outside the four of the switch

StatusBadRequest == 400
StatusMethodNotAllowed == 405
StatusInternalServerError == 500

Methods == {GET, POST, PUT, DELETE, HEAD}
Verbs == {GET, POST, PUT, DELETE}

APIs == {"A", "B"}
Ports == {8080, 8081}
ValidPaths == {"/items"}
Paths == ValidPaths \cup {""}       \* "" is the pattern HandleFunc rejects
NoAPI == "-"

\* ------------------------------------------------------------- resources
\* Three caller-supplied resources, told apart by the methods they have.
Resources == {"none", "items", "full"}
NoResource == "-"

\* The interfaces a resource satisfies (the type assertions of the switch).
Implements(r) ==
    CASE r = "items" -> {GET}
      [] r = "full"  -> {GET, POST, PUT, DELETE}
      [] OTHER       -> {}

\* Data a resource method may return.
DataNull == "nil"
DataOk == "map[ok:true]"
DataList == "[]int{1,2}"
DataChan == "chan int"      \* a value encoding/json cannot encode

\* url.Values as a set of <<key, values>> pairs; the nil map is {}.
NilForm == {}

HasKey(form, k) == \E kv \in form : kv[1] = k

\* The resource methods: m is the method name of the interface (the verb),
\* form the url.Values handed in; the result is the (int, interface{}) pair.
Call(r, m, form) ==
    CASE r = "items" /\ m = GET ->
            IF HasKey(form, "a") THEN [code |-> 200, data |-> DataOk]
                                 ELSE [code |-> 404, data |-> DataNull]
      [] r = "full" /\ m = GET    -> [code |-> 200, data |-> DataChan]
      [] r = "full" /\ m = POST   -> [code |-> 201, data |-> DataList]
      [] r = "full" /\ m = PUT    -> [code |-> 500, data |-> DataNull]
      [] r = "full" /\ m = DELETE -> [code |-> 404, data |-> DataChan]
      [] OTHER -> [code |-> 0, data |-> DataNull]

\* ------------------------------------------------------ library contracts
\* A raw query is a sequence of key=value pairs; a value "%zz" is a bad
\* escape. ParseForm keeps every pair it could decode and reports the first
\* error it met.
Pair(k, v) == [k |-> k, v |-> v]
BadEscape == "%zz"

Raws == { << >>, <<Pair("a", "1")>>, <<Pair("a", BadEscape)>> }

RECURSIVE AddPairs(_, _)
AddPairs(form, raw) ==
    IF raw = << >> THEN form
    ELSE LET p == Head(raw)
             old == IF HasKey(form, p.k)
                    THEN (CHOOSE kv \in form : kv[1] = p.k)[2]
                    ELSE << >>
             rest == {kv \in form : kv[1] # p.k}
         IN IF p.v = BadEscape
            THEN AddPairs(form, Tail(raw))
            ELSE AddPairs(rest \cup {<<p.k, Append(old, p.v)>>}, Tail(raw))

ParseForm(raw) ==
    [form |-> AddPairs(NilForm, raw),
     err  |-> \E i \in 1..Len(raw) : raw[i].v = BadEscape]

\* json.Marshal: the bytes and whether it failed.
Marshal(data) ==
    CASE data = DataNull -> [content |-> "null", err |-> FALSE]
      [] data = DataOk   -> [content |-> "{\"ok\":true}", err |-> FALSE]
      [] data = DataList -> [content |-> "[1,2]", err |-> FALSE]
      [] OTHER           -> [content |-> "", err |-> TRUE]

\* A response writer: the status line goes out once.
NewWriter == [wroteHeader |-> FALSE, status |-> 0, body |-> ""]

WriteHeader(rw, code) ==
    IF rw.wroteHeader THEN rw
    ELSE [rw EXCEPT !.wroteHeader = TRUE, !.status = code]

\* Write sends the header with 200 when none went out before the body.
Write(rw, content) ==
    LET w == WriteHeader(rw, 200)
    IN [w EXCEPT !.body = w.body \o content]

\* ------------------------------------------------------------------ state
VARIABLES
    mux,        \* per API: the field api.mux (nil, or the mux's pattern table)
    added,      \* per API: AddResource has been called on it
    listening,  \* per port: the API whose ListenAndServe holds the socket
    lastCall,   \* the latest AddResource or Start call that came back, and how
    reqs        \* per handling slot: one invocation of a handler closure

vars == <<mux, added, listening, lastCall, reqs>>

Slots == 1..MaxInflight
Nil == "nil"        \* the nil handler func of the closure

NilMux == [nil |-> TRUE, m |-> {}]
Entry(pattern, resource) == [pattern |-> pattern, resource |-> resource]

IdleReq ==
    [pc |-> "idle", api |-> NoAPI, path |-> "", resource |-> NoResource,
     method |-> "", raw |-> << >>, form |-> NilForm, handler |-> Nil,
     code |-> 0, data |-> DataNull, rw |-> NewWriter, calls |-> << >>,
     afterErr |-> FALSE]

NoCall == [op |-> "none", api |-> NoAPI, path |-> "", resource |-> NoResource,
           prev |-> {}, added |-> FALSE, result |-> "none"]

Init ==
    /\ mux = [a \in APIs |-> NilMux]
    /\ added = [a \in APIs |-> FALSE]
    /\ listening = [p \in Ports |-> NoAPI]
    /\ lastCall = NoCall
    /\ reqs = [s \in Slots |-> IdleReq]

\* The API is inside ListenAndServe.
Serving(a) == \E p \in Ports : listening[p] = a

\* --------------------------------------------------------------- AddResource
\* ServeMux.HandleFunc: panics on the empty pattern and on a pattern that is
\* registered already, and changes nothing then; otherwise adds the entry.
HandleFuncPanics(m, pattern) ==
    \/ pattern = ""
    \/ \E e \in m : e.pattern = pattern

HandleFunc(m, pattern, resource) ==
    IF HandleFuncPanics(m, pattern) THEN m
    ELSE m \cup {Entry(pattern, resource)}

\* The resources registered under a pattern.
Registered(m, pattern) == {e.resource : e \in {x \in m : x.pattern = pattern}}

\* Variant: the nil check dropped, a new mux allocated on every call.
AfterAddFresh(mx, resource, path) ==
    [nil |-> FALSE, m |-> HandleFunc({}, path, resource)]

\* The field api.mux once AddResource(resource, path) has run on it: the mux
\* is allocated before HandleFunc is called, so it stays when that panics.
AfterAdd(mx, resource, path) ==
    [nil |-> FALSE, m |-> HandleFunc(mx.m, path, resource)]

\* Variant: the handler registered on one process-wide mux (the way
\* http.HandleFunc does), so every instance sees it.
AddResourceShared(a, resource, path) ==
    /\ mux' = [b \in APIs |-> AfterAdd(mux[b], resource, path)]
    /\ added' = [added EXCEPT ![a] = TRUE]
    /\ lastCall' = [NoCall EXCEPT !.op = "AddResource", !.api = a,
                      !.path = path, !.resource = resource,
                      !.prev = Registered(mux[a].m, path),
                      !.result = IF HandleFuncPanics(mux[a].m, path)
                                 THEN "panic" ELSE "ok"]
    /\ UNCHANGED <<listening, reqs>>

AddResource(a, resource, path) ==
    /\ mux' = [mux EXCEPT ![a] = AfterAdd(mux[a], resource, path)]
    /\ added' = [added EXCEPT ![a] = TRUE]
    /\ lastCall' = [NoCall EXCEPT !.op = "AddResource", !.api = a,
                      !.path = path, !.resource = resource,
                      !.prev = Registered(mux[a].m, path),
                      !.result = IF HandleFuncPanics(mux[a].m, path)
                                 THEN "panic" ELSE "ok"]
    /\ UNCHANGED <<listening, reqs>>

\* --------------------------------------------------------------------- Start
\* Variant: the check made on the table's entries, not on the mux being nil.
StartResultNoRoutes(mx, portOwner) ==
    IF mx.m = {} THEN "config"
    ELSE IF portOwner # NoAPI THEN "bind"
    ELSE "serving"

\* What Start does: returns the configuration error, returns the listener's
\* error when the port is taken, or stays in ListenAndServe.
StartResult(mx, portOwner) ==
    IF mx.nil THEN "config"
    ELSE IF portOwner # NoAPI THEN "bind"
    ELSE "serving"

Start(a, port) ==
    /\ ~Serving(a)
    /\ LET res == StartResult(mux[a], listening[port])
       IN IF res = "serving"
          THEN /\ listening' = [listening EXCEPT ![port] = a]
               /\ UNCHANGED lastCall
          ELSE /\ lastCall' = [NoCall EXCEPT !.op = "Start", !.api = a,
                                 !.added = added[a], !.result = res]
               /\ UNCHANGED listening
    /\ UNCHANGED <<mux, added, reqs>>

\* ------------------------------------------------------------ requestHandler
\* A request that ended with a status of the closure's own: the 400 of a
\* form that did not parse, the 405 of a nil handler, the 500 of data that
\* did not encode.
CoreError(r) ==
    /\ r.pc = "done"
    /\ \/ ParseForm(r.raw).err
       \/ r.handler = Nil
       \/ Marshal(r.data).err

\* The transport hands a request for a registered path of a serving API to
\* the closure the mux holds for it; the closure has its resource captured.
\* (A request no pattern matches is answered by the mux and never gets here.)
Deliver(s, a, path, method, raw) ==
    /\ reqs[s].pc = "idle"
    /\ Serving(a)
    /\ \E res \in Registered(mux[a].m, path) :
         reqs' = [reqs EXCEPT ![s] =
                    [IdleReq EXCEPT !.pc = "parse", !.api = a, !.path = path,
                                    !.resource = res, !.method = method,
                                    !.raw = raw,
                                    !.afterErr = \E t \in Slots \ {s} :
                                                    /\ CoreError(reqs[t])
                                                    /\ reqs[t].api = a]]
    /\ UNCHANGED <<mux, added, listening, lastCall>>

\* Variant: the PUT case copied from the POST case with its body unchanged.
ResolvePutAsPost(resource, method) ==
    CASE method = GET    -> IF GET \in Implements(resource) THEN GET ELSE Nil
      [] method = POST   -> IF POST \in Implements(resource) THEN POST ELSE Nil
      [] method = PUT    -> IF POST \in Implements(resource) THEN POST ELSE Nil
      [] method = DELETE -> IF DELETE \in Implements(resource) THEN DELETE ELSE Nil
      [] OTHER           -> Nil

\* The switch on request.Method with its type assertions.
Resolve(resource, method) ==
    CASE method = GET    -> IF GET \in Implements(resource) THEN GET ELSE Nil
      [] method = POST   -> IF POST \in Implements(resource) THEN POST ELSE Nil
      [] method = PUT    -> IF PUT \in Implements(resource) THEN PUT ELSE Nil
      [] method = DELETE -> IF DELETE \in Implements(resource) THEN DELETE ELSE Nil
      [] OTHER           -> Nil

\* Variant: the verb is looked at before the form: an unresolved handler
\* answers 405 without the form being parsed.
AfterParseVerbFirst(r) ==
    LET h == Resolve(r.resource, r.method)
        p == ParseForm(r.raw)
    IN IF h = Nil
       THEN [r EXCEPT !.handler = h,
                      !.rw = WriteHeader(r.rw, StatusMethodNotAllowed),
                      !.pc = "done"]
       ELSE IF p.err
       THEN [r EXCEPT !.form = p.form,
                      !.rw = WriteHeader(r.rw, StatusBadRequest),
                      !.pc = "done"]
       ELSE [r EXCEPT !.form = p.form, !.pc = "resolve"]

\* Variant: the return after the 400 header left out.
AfterParseNoReturn(r) ==
    LET p == ParseForm(r.raw)
    IN IF p.err
       THEN [r EXCEPT !.form = p.form,
                      !.rw = WriteHeader(r.rw, StatusBadRequest),
                      !.pc = "resolve"]
       ELSE [r EXCEPT !.form = p.form, !.pc = "resolve"]

\* request.ParseForm() and the 400 branch.
AfterParse(r) ==
    LET p == ParseForm(r.raw)
    IN IF p.err
       THEN [r EXCEPT !.form = p.form,
                      !.rw = WriteHeader(r.rw, StatusBadRequest),
                      !.pc = "done"]
       ELSE [r EXCEPT !.form = p.form, !.pc = "resolve"]

\* Variant: a parse error ends the process (log.Fatal), sockets and all.
ParseStepFatal(s) ==
    /\ reqs[s].pc = "parse"
    /\ reqs' = [reqs EXCEPT ![s] = AfterParse(reqs[s])]
    /\ listening' = IF ParseForm(reqs[s].raw).err
                    THEN [p \in Ports |-> NoAPI] ELSE listening
    /\ UNCHANGED <<mux, added, lastCall>>

ParseStep(s) ==
    /\ reqs[s].pc = "parse"
    /\ reqs' = [reqs EXCEPT ![s] = AfterParse(reqs[s])]
    /\ UNCHANGED <<mux, added, listening, lastCall>>

\* Variant: 404 written where 405 is meant.
AfterResolveNotFound(r) ==
    LET h == Resolve(r.resource, r.method)
    IN IF h = Nil
       THEN [r EXCEPT !.handler = h,
                      !.rw = WriteHeader(r.rw, 404),
                      !.pc = "done"]
       ELSE [r EXCEPT !.handler = h, !.pc = "invoke"]

\* ... and the 405 branch.
AfterResolve(r) ==
    LET h == Resolve(r.resource, r.method)
    IN IF h = Nil
       THEN [r EXCEPT !.handler = h,
                      !.rw = WriteHeader(r.rw, StatusMethodNotAllowed),
                      !.pc = "done"]
       ELSE [r EXCEPT !.handler = h, !.pc = "invoke"]

ResolveStep(s) ==
    /\ reqs[s].pc = "resolve"
    /\ reqs' = [reqs EXCEPT ![s] = AfterResolve(reqs[s])]
    /\ UNCHANGED <<mux, added, listening, lastCall>>

\* code, data := handler(request.Form)
AfterInvoke(r) ==
    LET res == Call(r.resource, r.handler, r.form)
    IN [r EXCEPT !.code = res.code, !.data = res.data,
                 !.calls = Append(r.calls, [m |-> r.handler, form |-> r.form]),
                 !.pc = "respond"]

\* Variant: the handler variable declared outside the closure, so all the
\* invocations for one resource share it.
InvokeStepShared(s) ==
    /\ reqs[s].pc = "invoke"
    /\ \E t \in Slots :
         /\ reqs[t].handler # Nil
         /\ reqs[t].resource = reqs[s].resource
         /\ reqs' = [reqs EXCEPT ![s] =
                       AfterInvoke([reqs[s] EXCEPT !.handler = reqs[t].handler])]
    /\ UNCHANGED <<mux, added, listening, lastCall>>

InvokeStep(s) ==
    /\ reqs[s].pc = "invoke"
    /\ reqs' = [reqs EXCEPT ![s] = AfterInvoke(reqs[s])]
    /\ UNCHANGED <<mux, added, listening, lastCall>>

\* Variant: the error of json.Marshal ignored.
RespondNoErrCheck(rw, code, data) ==
    LET enc == Marshal(data)
        w2 == WriteHeader(rw, code)
    IN Write(w2, enc.content)

\* json.Marshal, the 500 header on its error, then the header and the body.
Respond(rw, code, data) ==
    LET enc == Marshal(data)
        w1 == IF enc.err THEN WriteHeader(rw, StatusInternalServerError) ELSE rw
        w2 == WriteHeader(w1, code)
    IN Write(w2, enc.content)

RespondStep(s) ==
    /\ reqs[s].pc = "respond"
    /\ reqs' = [reqs EXCEPT ![s] =
                  [reqs[s] EXCEPT !.rw = Respond(reqs[s].rw, reqs[s].code, reqs[s].data),
                                  !.pc = "done"]]
    /\ UNCHANGED <<mux, added, listening, lastCall>>

\* The response is on the wire; the request context is dropped.
Discard(s) ==
    /\ reqs[s].pc = "done"
    /\ reqs' = [reqs EXCEPT ![s] = IdleReq]
    /\ UNCHANGED <<mux, added, listening, lastCall>>

\* ---------------------------------------------------------------------- Next
\* The steps of a program that uses the API instances `apis` and is sent
\* requests with the verbs `methods` and the queries `raws`.
Step(apis, methods, raws) ==
    \/ \E a \in apis, r \in Resources, p \in Paths : AddResource(a, r, p)
    \/ \E a \in apis, p \in Ports : Start(a, p)
    \/ \E s \in Slots, a \in apis, p \in ValidPaths, m \in methods, raw \in raws :
         Deliver(s, a, p, m, raw)
    \/ \E s \in Slots : ParseStep(s)
    \/ \E s \in Slots : ResolveStep(s)
    \/ \E s \in Slots : InvokeStep(s)
    \/ \E s \in Slots : RespondStep(s)
    \/ \E s \in Slots : Discard(s)

\* One API instance, every verb and query.
Next == Step({"A"}, Methods, Raws)

Spec == Init /\ [][Next]_vars

\* Two API instances, each sent well-formed GET and POST requests.
NextTwo == Step(APIs, {GET, POST}, {<<Pair("a", "1")>>})

SpecTwo == Init /\ [][NextTwo]_vars

\* ==================================================================== claims
\* What a request is and what its resource does with it, read off the
\* request alone.
Done(r) == r.pc = "done"
ParsedOK(r) == ~ParseForm(r.raw).err
Fields(r) == ParseForm(r.raw).form
Supported(r) == r.method \in Verbs /\ r.method \in Implements(r.resource)
Returned(r) == Call(r.resource, r.method, Fields(r))
Encodable(r) == ~Marshal(Returned(r).data).err
OneCall(r) == r.calls = <<[m |-> r.method, form |-> Fields(r)]>>
EmptyBody(r) == r.rw.body = ""

\* The request's verb was dispatched to its method, once, and the response
\* carries the method's status and the encoding of its data.
Answered(r) ==
    /\ OneCall(r)
    /\ r.rw.status = Returned(r).code
    /\ r.rw.body = Marshal(Returned(r).data).content

\* C1 as stated: every parsed request with a verb its resource implements
\* has exactly that method invoked once with the parsed fields, and is
\* answered with the method's status and the JSON encoding of its data.
C1_AsStated ==
    \A s \in Slots :
        (Done(reqs[s]) /\ ParsedOK(reqs[s]) /\ Supported(reqs[s]))
            => Answered(reqs[s])

\* C1 amended: the same, for the requests whose method returns data that
\* json.Marshal can encode; the method is invoked once either way.
C1_Dispatch ==
    \A s \in Slots :
        (Done(reqs[s]) /\ ParsedOK(reqs[s]) /\ Supported(reqs[s]))
            => /\ OneCall(reqs[s])
               /\ Encodable(reqs[s]) => Answered(reqs[s])

C1_Witness ==
    \E s, t \in Slots :
        /\ Done(reqs[s]) /\ ParsedOK(reqs[s]) /\ Encodable(reqs[s])
        /\ reqs[s].method = PUT /\ reqs[s].resource = "full"
        /\ Done(reqs[t]) /\ ParsedOK(reqs[t]) /\ Encodable(reqs[t])
        /\ reqs[t].method = POST /\ reqs[t].resource = "full"
        /\ reqs[t].rw.body = "[1,2]" /\ reqs[t].rw.status = 201

\* The 405 answer: no method invoked, nothing in the body.
NotAllowed(r) ==
    /\ r.rw.status = StatusMethodNotAllowed
    /\ EmptyBody(r)
    /\ r.calls = << >>

\* C2 as stated: every request whose verb is outside the four, or names a
\* method its resource lacks, is answered 405 with an empty body and no
\* method invoked.
C2_AsStated ==
    \A s \in Slots :
        (Done(reqs[s]) /\ ~Supported(reqs[s])) => NotAllowed(reqs[s])

\* C2 amended: the same, for the requests whose form parses.
C2_NotAllowed ==
    \A s \in Slots :
        (Done(reqs[s]) /\ ParsedOK(reqs[s]) /\ ~Supported(reqs[s]))
            => NotAllowed(reqs[s])

C2_Witness ==
    \E s, t \in Slots :
        /\ Done(reqs[s]) /\ ParsedOK(reqs[s])
        /\ reqs[s].method = HEAD /\ reqs[s].resource = "items"
        /\ Done(reqs[t]) /\ ParsedOK(reqs[t])
        /\ reqs[t].method = POST /\ reqs[t].resource = "items"

\* C3: a request whose form fails to parse is answered 400 with an empty
\* body, and no method of the resource is invoked for it.
C3_BadRequest ==
    \A s \in Slots :
        (Done(reqs[s]) /\ ~ParsedOK(reqs[s]))
            => /\ reqs[s].rw.status = StatusBadRequest
               /\ EmptyBody(reqs[s])
               /\ reqs[s].calls = << >>

C3_Witness ==
    \E s \in Slots :
        /\ Done(reqs[s]) /\ ~ParsedOK(reqs[s])
        /\ Supported(reqs[s]) /\ reqs[s].resource = "full"

\* C4: when the data a method returned cannot be encoded, the response has
\* status 500 whatever status the method chose, and the body is the empty
\* content json.Marshal produced.
C4_EncodeError ==
    \A s \in Slots :
        (Done(reqs[s]) /\ ParsedOK(reqs[s]) /\ Supported(reqs[s])
            /\ ~Encodable(reqs[s]))
            => /\ reqs[s].rw.status = StatusInternalServerError
               /\ reqs[s].rw.body = Marshal(Returned(reqs[s]).data).content
               /\ EmptyBody(reqs[s])

C4_Witness ==
    \E s, t \in Slots :
        /\ Done(reqs[s]) /\ ParsedOK(reqs[s]) /\ Supported(reqs[s])
        /\ ~Encodable(reqs[s]) /\ Returned(reqs[s]).code = 200
        /\ Done(reqs[t]) /\ ParsedOK(reqs[t]) /\ Supported(reqs[t])
        /\ ~Encodable(reqs[t]) /\ Returned(reqs[t]).code = 404

\* C5: Start on an instance AddResource was never called on returns the
\* configuration error, opens no socket and does not serve; Start on an
\* instance AddResource was called on never returns that error.
C5_StartNeedsAdd ==
    /\ \A a \in APIs : Serving(a) => added[a]
    /\ lastCall.op = "Start" =>
          /\ (lastCall.result = "config") <=> ~lastCall.added
          /\ lastCall.result = "config" => ~Serving(lastCall.api)

C5_Witness ==
    /\ lastCall.op = "Start" /\ lastCall.result = "config"
    /\ \E a \in APIs : Serving(a) /\ mux[a].m = {}

\* The requests being handled are bound to a resource their API has
\* registered under their path.
Bound(r) == r.resource \in Registered(mux[r.api].m, r.path)
InFlightBound == \A s \in Slots : reqs[s].pc # "idle" => Bound(reqs[s])

AtMostOnePerPath ==
    \A a \in APIs, p \in ValidPaths : Cardinality(Registered(mux[a].m, p)) <= 1

LastAddOn(p) == lastCall.op = "AddResource" /\ lastCall.path = p

\* C6 as stated: the table holds at most one resource per path, and a
\* later AddResource for a path completes normally and leaves the path
\* bound to the resource it was given (the last registration wins).
C6_AsStated ==
    /\ AtMostOnePerPath
    /\ \A p \in ValidPaths :
          LastAddOn(p) =>
             /\ lastCall.result = "ok"
             /\ Registered(mux[lastCall.api].m, p) = {lastCall.resource}

\* C6 amended: the table holds at most one resource per path; the first
\* AddResource for a path binds it, and a later one for the same path
\* panics in HandleFunc and leaves the path bound to the first resource,
\* which the requests to that path keep being dispatched to.
C6_FirstWins ==
    /\ AtMostOnePerPath
    /\ \A p \in ValidPaths :
          LastAddOn(p) =>
             IF lastCall.prev = {}
             THEN /\ lastCall.result = "ok"
                  /\ Registered(mux[lastCall.api].m, p) = {lastCall.resource}
             ELSE /\ lastCall.result = "panic"
                  /\ Registered(mux[lastCall.api].m, p) = lastCall.prev
    /\ InFlightBound

C6_Witness ==
    /\ \E p \in ValidPaths : LastAddOn(p)
    /\ lastCall.prev # {} /\ lastCall.resource \notin lastCall.prev
    /\ \E s \in Slots :
          /\ reqs[s].pc = "parse" /\ reqs[s].api = lastCall.api
          /\ reqs[s].resource \in lastCall.prev

\* C7: an AddResource call changes the mux of the instance it is made on
\* and of no other (its nil-ness included), and a request delivered to an
\* instance is handled by a resource registered on that instance.
C7_Frame ==
    \A b \in APIs :
        (mux'[b] # mux[b] \/ added'[b] # added[b])
            => lastCall'.op = "AddResource" /\ lastCall'.api = b

C7_Isolated == [][C7_Frame]_vars /\ []InFlightBound

C7_Witness ==
    /\ Serving("A") /\ Serving("B")
    /\ Registered(mux["A"].m, "/items") = {"items"}
    /\ Registered(mux["B"].m, "/items") = {"full"}
    /\ \E s \in Slots :
          /\ Done(reqs[s]) /\ reqs[s].api = "A" /\ reqs[s].resource = "items"

\* After a request of its API ended in a 400, 405 or 500 of the core.
Recovered(r) == Done(r) /\ r.afterErr /\ ParsedOK(r) /\ Supported(r)

StillServing ==
    \A s \in Slots :
        CoreError(reqs[s]) => Serving(reqs[s].api) /\ Bound(reqs[s])

\* C8 as stated: after a request ended in a 400, 405 or 500 of the core the
\* API still serves with its routes in place, and every later parsed
\* request with a supported verb has its method invoked and is answered
\* with the method's status and encoded data.
C8_AsStated ==
    /\ StillServing
    /\ \A s \in Slots : Recovered(reqs[s]) => Answered(reqs[s])

\* C8 amended: the same, the answer being the method's status and encoded
\* data when json.Marshal can encode the data.
C8_Recovers ==
    /\ StillServing
    /\ \A s \in Slots :
          Recovered(reqs[s]) =>
             /\ OneCall(reqs[s])
             /\ Encodable(reqs[s]) => Answered(reqs[s])

C8_Witness ==
    \E s, t \in Slots :
        /\ CoreError(reqs[t]) /\ reqs[t].rw.status = StatusBadRequest
        /\ Recovered(reqs[s]) /\ Encodable(reqs[s])
        /\ reqs[s].api = reqs[t].api

\* What the closure does with a request for `resource`, step by step.
Outcome(resource, method, raw) ==
    LET p == ParseForm(raw)
        ok == method \in Verbs /\ method \in Implements(resource)
        res == Call(resource, method, p.form)
        enc == Marshal(res.data)
    IN IF p.err
       THEN [status |-> StatusBadRequest, body |-> "", calls |-> << >>]
       ELSE IF ~ok
       THEN [status |-> StatusMethodNotAllowed, body |-> "", calls |-> << >>]
       ELSE [status |-> IF enc.err THEN StatusInternalServerError ELSE res.code,
             body |-> enc.content,
             calls |-> <<[m |-> method, form |-> p.form]>>]

OwnOutcome ==
    \A s \in Slots :
        Done(reqs[s]) =>
            LET o == Outcome(reqs[s].resource, reqs[s].method, reqs[s].raw)
            IN /\ reqs[s].rw.status = o.status
               /\ reqs[s].rw.body = o.body
               /\ reqs[s].calls = o.calls

\* A step of a request leaves the muxes and sockets alone, touches no other
\* request, and keeps what the request was delivered with.
HandlingFrame ==
    reqs' # reqs =>
        /\ mux' = mux /\ added' = added /\ listening' = listening
        /\ \A s, t \in Slots :
              (s # t /\ reqs'[s] # reqs[s]) => reqs'[t] = reqs[t]
        /\ \A s \in Slots :
              reqs[s].pc \notin {"idle", "done"} =>
                 /\ reqs'[s].resource = reqs[s].resource
                 /\ reqs'[s].method = reqs[s].method
                 /\ reqs'[s].raw = reqs[s].raw

\* C9: with requests handled concurrently, handling one never changes the
\* routes or the bindings, and what it invokes and writes depends on its
\* own verb, fields and resource alone and goes to its own response.
C9_NoSharedState == []OwnOutcome /\ [][HandlingFrame]_vars

C9_Witness ==
    \E s, t \in Slots :
        /\ s # t /\ reqs[s].api = reqs[t].api
        /\ Done(reqs[t]) /\ reqs[t].handler = Nil /\ ParsedOK(reqs[t])
        /\ reqs[s].pc = "respond" /\ ~reqs[s].afterErr
        /\ reqs[s].method # reqs[t].method

\* C10: a request whose form fails to parse gets 400, never 405, whatever
\* its verb; 405 goes only to requests whose form parsed; a method is
\* invoked, and 500 written, only when the form parsed and the verb
\* resolved.
C10_ParseFirst ==
    \A s \in Slots :
        LET r == reqs[s]
        IN /\ (Done(r) /\ ~ParsedOK(r)) => r.rw.status = StatusBadRequest
           /\ (r.rw.wroteHeader /\ r.rw.status = StatusMethodNotAllowed)
                 => ParsedOK(r)
           /\ r.pc = "resolve" => ParsedOK(r)
           /\ (r.pc \in {"invoke", "respond"} \/ r.calls # << >>)
                 => ParsedOK(r) /\ Supported(r)
           /\ (r.rw.wroteHeader /\ r.rw.status = StatusInternalServerError)
                 => ParsedOK(r) /\ Supported(r)

C10_Witness ==
    \E s \in Slots :
        /\ Done(reqs[s]) /\ ~ParsedOK(reqs[s]) /\ ~Supported(reqs[s])
        /\ reqs[s].rw.status = StatusBadRequest

====
